---- MODULE Spec2Model ----
(***************************************************************************)
(* Model of the two scripts of my_scripts/:                                *)
(*   rl_episode_example.py  the Instance Runner (main and its helpers)     *)
(*   test1.py               the Dataset Exporter                           *)
(* Calls into third-party libraries (open/json.load, load_dataset, the     *)
(* profile registry, the docker client) are environment steps: each either *)
(* returns a value drawn from a small set or raises.                       *)
(***************************************************************************)
EXTENDS Integers, Sequences, FiniteSets, TLC

VARIABLES
  pc,          \* position in main / in the exporter script
  args,        \* parsed command line: dataset, hf_split, instance, f2p_only
  data,        \* load_instances: the value json.load returned
  instances,   \* main: the value load_instances returned
  inst,        \* main: the instance find_instance returned
  container,   \* the docker container: none, running, stopped, removed
  exc,         \* the exception in flight (None when there is none)
  raisedAt,    \* the statement of main that raised first
  out,         \* what was written to the standard streams, in order
  did,         \* the statements of main entered so far, in order
  test_cmd,    \* main: the resolved test command
  execExit,    \* run_tests: result.exit_code of exec_run
  exit_code,   \* main: the value run_tests returned
  opened,      \* whether open(path) was called
  dsLoaded,    \* whether load_dataset was called
  dataset,     \* exporter: the loaded dataset
  dataset_list,\* exporter: the materialized list
  f,           \* exporter: the bytes of dataset_list_part_3.jsonl
  k            \* exporter: how many items the for loop has written

vars == <<pc, args, data, instances, inst, container, exc, raisedAt, out, did,
          test_cmd, execExit, exit_code, opened, dsLoaded, dataset,
          dataset_list, f, k>>

exporterVars == <<dataset, dataset_list, f, k>>

----------------------------------------------------------------------------
(* Bounds *)

MaxInst == 2      \* longest list of instances a source holds
MaxP2P == 6       \* longest PASS_TO_PASS list
MaxExit == 2      \* largest exit code of the test command
MaxRecords == 4   \* largest dataset the exporter loads

----------------------------------------------------------------------------
(* Values *)

None == "<None>"

Ids == {"i1", "i2"}
Repos == {"ra", "rb"}
Tests == {"t1", "t2"}

RECURSIVE SeqsUpTo(_, _)
SeqsUpTo(S, n) ==
  IF n = 0 THEN {<<>>}
  ELSE LET shorter == SeqsUpTo(S, n - 1)
       IN  shorter \cup {Append(s, x) : s \in {t \in shorter : Len(t) = n - 1}, x \in S}

Min(a, b) == IF a < b THEN a ELSE b

Instance(id, repo, ps, f2p, p2p) ==
  [instance_id |-> id, repo |-> repo, image_name |-> "img",
   problem_statement |-> ps, FAIL_TO_PASS |-> f2p, PASS_TO_PASS |-> p2p]

NoInst == Instance(None, None, None, <<>>, <<>>)

\* the instances a source of the runner may hold
RunnerInstances == {Instance(id, r, "", <<"t1">>, <<"t2">>) : id \in Ids, r \in Repos}

\* JSON values: kind is the Python type json.load gives, items its elements
Json(kind, items) == [kind |-> kind, items |-> items]
NoValue == Json(None, <<>>)
InstanceLists == {Json("list", s) : s \in SeqsUpTo(RunnerInstances, MaxInst)}
JsonValues ==
  {Json("dict", <<>>), Json("str", <<>>), Json("str", <<"x">>),
   Json("int", <<>>), Json("bool", <<>>), Json("null", <<>>)} \cup InstanceLists

Line(tag, n, s) == [tag |-> tag, n |-> n, s |-> s]

----------------------------------------------------------------------------
(* rl_episode_example.py: the helpers of main *)

\* Python truth of an optional string: None and "" are false
TruthyNotNone(x) == x # None
Truthy(x) == x # None /\ x # ""

\* line 35: the one top-level type load_instances rejects
IsRejectedNever(v) == FALSE
IsRejected(v) == v.kind = "dict"

Returned(v) == [ok |-> TRUE, val |-> v, err |-> None]
Raised(e) == [ok |-> FALSE, val |-> NoInst, err |-> e]

\* the for loop of find_instance over a list, from element i on
RECURSIVE FindFrom(_, _, _)
FindFrom(items, instance_id, i) ==
  IF i > Len(items) THEN Raised("KeyError")
  ELSE IF items[i].instance_id = instance_id THEN Returned(items[i])
  ELSE FindFrom(items, instance_id, i + 1)

RECURSIVE FindLastFrom(_, _, _)
FindLastFrom(items, instance_id, i) ==
  IF i < 1 THEN Raised("KeyError")
  ELSE IF items[i].instance_id = instance_id THEN Returned(items[i])
  ELSE FindLastFrom(items, instance_id, i - 1)

find_instance_last(v, instance_id) ==
  IF v.kind = "list" THEN FindLastFrom(v.items, instance_id, Len(v.items))
  ELSE Raised("TypeError")

\* find_instance on whatever load_instances returned: a list is scanned; a
\* string iterates over its characters and indexing one by "instance_id" is a
\* TypeError (the empty string has none, so the loop ends in the KeyError);
\* numbers, booleans and null are not iterable.
find_instance(v, instance_id) ==
  IF v.kind = "list" THEN FindFrom(v.items, instance_id, 1)
  ELSE IF v.kind = "str" /\ Len(v.items) = 0 THEN Raised("KeyError")
  ELSE Raised("TypeError")

P2PShown == 5   \* the slice [:5]
P2PMore == 5    \* the test len(...) > 5

ShowsEllipsisFromLimit(n) == n >= P2PMore
ShowsEllipsis(n) == n > P2PMore

Head5(tests) == SubSeq(tests, 1, Min(P2PShown, Len(tests)))

ItemLines(tests) == [i \in 1..Len(tests) |-> Line("ITEM", i, tests[i])]

\* the lines pretty_print_instance prints
pretty_print_instance(i) ==
  <<Line("RULE", 80, "="),
    Line("Instance", 0, i.instance_id),
    Line("Repo", 0, i.repo),
    Line("Image", 0, i.image_name)>>
  \o (IF Truthy(i.problem_statement)
      THEN <<Line("Problem", 0, ""), Line("TEXT", 0, i.problem_statement)>>
      ELSE <<>>)
  \o <<Line("FAIL_TO_PASS", Len(i.FAIL_TO_PASS), "")>>
  \o ItemLines(i.FAIL_TO_PASS)
  \o <<Line("PASS_TO_PASS", Len(i.PASS_TO_PASS), "")>>
  \o ItemLines(Head5(i.PASS_TO_PASS))
  \o (IF ShowsEllipsis(Len(i.PASS_TO_PASS)) THEN <<Line("ELLIPSIS", 0, "...")>> ELSE <<>>)
  \o <<Line("RULE", 80, "=")>>

\* lines 105-108: the verdict main prints for an exit code
VerdictOnlyOne(c) == IF c = 1 THEN "OK" ELSE "WARN"
Verdict(c) == IF c = 0 THEN "WARN" ELSE "OK"

\* the statements of main inside the try block (lines 102-108)
TryBlock == {"testcmd", "run", "result"}

\* where control goes when statement loc raises: into the finally block from
\* inside the try, out of main otherwise
HandlerSwallow(loc) ==
  IF loc \in TryBlock THEN "finally"
  ELSE IF loc = "load" THEN "find"
  ELSE IF loc = "find" THEN "print"
  ELSE "error"
Handler(loc) == IF loc \in TryBlock THEN "finally" ELSE "error"

----------------------------------------------------------------------------
(* rl_episode_example.py: main, one action per statement *)

ArgSets ==
  [dataset : {None, "", "subset0.json"}, hf_split : {None, "", "train"},
   instance : Ids, f2p_only : BOOLEAN]

Idle ==
  /\ data = NoValue /\ instances = NoValue /\ inst = NoInst
  /\ container = "none" /\ exc = None /\ raisedAt = None
  /\ out = <<>> /\ did = <<>> /\ test_cmd = None
  /\ execExit = -1 /\ exit_code = -1
  /\ opened = FALSE /\ dsLoaded = FALSE
  /\ dataset = <<>> /\ dataset_list = <<>> /\ k = 0

Init ==
  /\ pc = "load"
  /\ args \in ArgSets
  /\ f = <<>>
  /\ Idle

\* statement loc raises e
Raise(loc, e) ==
  /\ exc' = e
  /\ raisedAt' = loc
  /\ pc' = Handler(loc)

\* line 94 with load_instances (lines 31-42)
LoadInstances ==
  /\ pc = "load"
  /\ did' = Append(did, "load")
  /\ UNCHANGED <<args, inst, container, out, test_cmd, execExit, exit_code>>
  /\ UNCHANGED exporterVars
  /\ IF Truthy(args.dataset)
     THEN /\ opened' = TRUE
          /\ dsLoaded' = dsLoaded
          /\ \/ /\ Raise("load", "OSError")             \* open fails
                /\ UNCHANGED <<data, instances>>
             \/ /\ Raise("load", "JSONDecodeError")     \* not JSON
                /\ UNCHANGED <<data, instances>>
             \/ \E v \in JsonValues :
                  /\ data' = v
                  /\ IF IsRejected(v)
                     THEN /\ Raise("load", "ValueError")
                          /\ instances' = instances
                     ELSE /\ instances' = v
                          /\ pc' = "find"
                          /\ UNCHANGED <<exc, raisedAt>>
     ELSE IF ~Truthy(args.hf_split)
     THEN /\ Raise("load", "ValueError")
          /\ UNCHANGED <<data, instances, opened, dsLoaded>>
     ELSE /\ dsLoaded' = TRUE
          /\ UNCHANGED <<data, opened>>
          /\ \/ /\ Raise("load", "DatasetError")        \* load_dataset fails
                /\ instances' = instances
             \/ \E v \in InstanceLists :
                  /\ instances' = v
                  /\ pc' = "find"
                  /\ UNCHANGED <<exc, raisedAt>>

\* line 95 with find_instance (lines 45-49)
FindInstance ==
  /\ pc = "find"
  /\ did' = Append(did, "find")
  /\ LET r == find_instance(instances, args.instance)
     IN  IF r.ok
         THEN /\ inst' = r.val
              /\ pc' = "print"
              /\ UNCHANGED <<exc, raisedAt>>
         ELSE /\ Raise("find", r.err)
              /\ inst' = inst
  /\ UNCHANGED <<args, data, instances, container, out, test_cmd, execExit,
                 exit_code, opened, dsLoaded>>
  /\ UNCHANGED exporterVars

\* line 96 with pretty_print_instance (lines 52-68)
PrettyPrint ==
  /\ pc = "print"
  /\ did' = Append(did, "print")
  /\ out' = out \o pretty_print_instance(inst)
  /\ pc' = "profile"
  /\ UNCHANGED <<args, data, instances, inst, container, exc, raisedAt,
                 test_cmd, execExit, exit_code, opened, dsLoaded>>
  /\ UNCHANGED exporterVars

\* line 98: registry.get_from_inst
GetProfile ==
  /\ pc = "profile"
  /\ did' = Append(did, "profile")
  /\ \/ pc' = "start" /\ UNCHANGED <<exc, raisedAt>>
     \/ Raise("profile", "KeyError")
  /\ UNCHANGED <<args, data, instances, inst, container, out, test_cmd,
                 execExit, exit_code, opened, dsLoaded>>
  /\ UNCHANGED exporterVars

\* lines 99-100: rp.get_container and the [INFO] line
GetContainer ==
  /\ pc = "start"
  /\ did' = Append(did, "start")
  /\ \/ /\ container' = "running"
        /\ out' = Append(out, Line("INFO", 0, "up"))
        /\ pc' = "testcmd"
        /\ UNCHANGED <<exc, raisedAt>>
     \/ /\ Raise("start", "DockerException")
        /\ UNCHANGED <<container, out>>
  /\ UNCHANGED <<args, data, instances, inst, test_cmd, execExit, exit_code,
                 opened, dsLoaded>>
  /\ UNCHANGED exporterVars

\* line 102: rp.get_test_cmd
GetTestCmd ==
  /\ pc = "testcmd"
  /\ did' = Append(did, "testcmd")
  /\ \/ /\ test_cmd' = IF args.f2p_only THEN "pytest f2p" ELSE "pytest"
        /\ pc' = "run"
        /\ UNCHANGED <<exc, raisedAt>>
     \/ /\ Raise("testcmd", "ProfileError")
        /\ test_cmd' = test_cmd
  /\ UNCHANGED <<args, data, instances, inst, container, out, execExit,
                 exit_code, opened, dsLoaded>>
  /\ UNCHANGED exporterVars

ExitCodes == 0..MaxExit
Streams == {"", "bytes"}

\* line 103 with run_tests (lines 71-79)
RunTests ==
  /\ pc = "run"
  /\ \/ /\ did' = did \o <<"exec">>
        /\ out' = Append(out, Line("RUN", 0, test_cmd))
        /\ Raise("run", "APIError")                     \* exec_run fails
        /\ UNCHANGED <<execExit, exit_code>>
     \/ \E c \in ExitCodes, stdout \in Streams, stderr \in Streams :
          /\ did' = did \o <<"exec", "relay">>
          /\ out' = out \o <<Line("RUN", 0, test_cmd)>>
                        \o (IF stdout # "" THEN <<Line("STDOUT", 0, stdout)>> ELSE <<>>)
                        \o (IF stderr # "" THEN <<Line("STDERR", 0, stderr)>> ELSE <<>>)
          /\ execExit' = c
          /\ exit_code' = c
          /\ pc' = "result"
          /\ UNCHANGED <<exc, raisedAt>>
  /\ UNCHANGED <<args, data, instances, inst, container, test_cmd, opened, dsLoaded>>
  /\ UNCHANGED exporterVars

\* lines 104-108: the [RESULT] line and the verdict
ReportResult ==
  /\ pc = "result"
  /\ did' = Append(did, "result")
  /\ out' = out \o <<Line("RESULT", exit_code, ""), Line(Verdict(exit_code), 0, "")>>
  /\ pc' = "finally"
  /\ UNCHANGED <<args, data, instances, inst, container, exc, raisedAt,
                 test_cmd, execExit, exit_code, opened, dsLoaded>>
  /\ UNCHANGED exporterVars

\* how main ends once the finally block is through
Ending(e) == IF e = None THEN "done" ELSE "error"

\* lines 110-111: the [CLEANUP] line and container.stop()
ContainerStop ==
  /\ pc = "finally"
  /\ did' = Append(did, "stop")
  /\ out' = Append(out, Line("CLEANUP", 0, ""))
  /\ \/ /\ container' = "stopped"
        /\ pc' = "remove"
        /\ UNCHANGED <<exc, raisedAt>>
     \/ /\ exc' = "APIError"                            \* stop fails
        /\ raisedAt' = IF raisedAt = None THEN "stop" ELSE raisedAt
        /\ pc' = "error"
        /\ container' = container
  /\ UNCHANGED <<args, data, instances, inst, test_cmd, execExit, exit_code,
                 opened, dsLoaded>>
  /\ UNCHANGED exporterVars

\* line 112: container.remove(), then the pending exception is raised again
ContainerRemove ==
  /\ pc = "remove"
  /\ did' = Append(did, "remove")
  /\ \/ /\ container' = "removed"
        /\ pc' = Ending(exc)
        /\ UNCHANGED <<exc, raisedAt>>
     \/ /\ exc' = "APIError"                            \* remove fails
        /\ raisedAt' = IF raisedAt = None THEN "remove" ELSE raisedAt
        /\ pc' = "error"
        /\ container' = container
  /\ UNCHANGED <<args, data, instances, inst, out, test_cmd, execExit,
                 exit_code, opened, dsLoaded>>
  /\ UNCHANGED exporterVars

Next ==
  \/ LoadInstances
  \/ FindInstance
  \/ PrettyPrint
  \/ GetProfile
  \/ GetContainer
  \/ GetTestCmd
  \/ RunTests
  \/ ReportResult
  \/ ContainerStop
  \/ ContainerRemove

Spec == Init /\ [][Next]_vars

----------------------------------------------------------------------------
(* Properties of the Instance Runner, checked under Spec *)

Exited == pc \in {"done", "error"}
Entered(step) == \E i \in 1..Len(did) : did[i] = step
Count(tag) == Cardinality({i \in 1..Len(out) : out[i].tag = tag})
Absent(x) == x \in {None, ""}

\* C1: once get_container has returned a container, the container is stopped
\* and removed by the time the script exits, on every exit path.
C1_ContainerReleasedOnExit ==
  (Exited /\ container # "none") => (container = "removed" /\ Entered("stop") /\ Entered("remove"))

\* C2: when get_test_cmd or run_tests raises, main calls container.stop() and
\* then container.remove(), and the run ends in error after the cleanup.
C2_CleanupAfterTestFailure ==
  (Exited /\ raisedAt \in {"testcmd", "run"}) =>
    /\ pc = "error"
    /\ exc # None
    /\ Len(did) >= 2
    /\ did[Len(did) - 1] = "stop"
    /\ did[Len(did)] = "remove"

Matches == {i \in 1..Len(instances.items) : instances.items[i].instance_id = args.instance}

\* C3: on a list of instances find_instance returns the first instance whose
\* instance_id is the requested one, and raises KeyError exactly when the list
\* holds none (the empty list included).
C3_FindInstance ==
  (instances.kind = "list" /\ Entered("find")) =>
    IF Matches # {}
    THEN /\ raisedAt # "find"
         /\ inst.instance_id = args.instance
         /\ inst = instances.items[CHOOSE i \in Matches : \A j \in Matches : i <= j]
    ELSE /\ raisedAt = "find"
         /\ exc = "KeyError"
         /\ pc = "error"
         /\ inst = NoInst

C3_Witness ==
  /\ instances.kind = "list"
  /\ Entered("find")
  /\ Cardinality(Matches) = 2
  /\ instances.items[1] # instances.items[2]

\* C4: with a local file path, load_instances returns a value only when the
\* top-level JSON value is a list, and fails for every other top-level value.
C4_OnlyListsLoaded ==
  (args.dataset = "subset0.json" /\ pc # "load" /\ data # NoValue) =>
    IF data.kind = "list"
    THEN raisedAt # "load" /\ instances = data
    ELSE raisedAt = "load" /\ instances = NoValue

\* C5: a local file whose top-level value is a mapping makes load_instances
\* raise ValueError and return nothing; the script ends there, with no lookup
\* and no container.
C5_MappingIsValueError ==
  (data.kind = "dict") =>
    /\ pc = "error"
    /\ exc = "ValueError"
    /\ raisedAt = "load"
    /\ instances = NoValue
    /\ did = <<"load">>
    /\ container = "none"

C5_Witness == data.kind = "dict" /\ pc = "error" /\ opened

\* C6: with neither a dataset path nor a split (absent or empty),
\* load_instances raises ValueError, opens no file and loads no dataset.
C6_NoSourceIsValueError ==
  (Absent(args.dataset) /\ Absent(args.hf_split) /\ pc # "load") =>
    /\ pc = "error"
    /\ exc = "ValueError"
    /\ raisedAt = "load"
    /\ ~opened
    /\ ~dsLoaded
    /\ instances = NoValue

C6_Witness ==
  /\ args.dataset = "" /\ args.hf_split = None
  /\ pc = "error" /\ exc = "ValueError"

\* C8: when the test command completes with exit code c, run_tests returns c,
\* main logs c in its one [RESULT] line, and prints exactly one verdict: the
\* warning iff c = 0, the expected-failing line iff c # 0.
C8_ExitCodeReported ==
  /\ (execExit # -1) => (exit_code = execExit)
  /\ (execExit = -1) => (Count("RESULT") = 0 /\ Count("WARN") = 0 /\ Count("OK") = 0)
  /\ Entered("result") =>
       /\ Count("RESULT") = 1
       /\ \A i \in 1..Len(out) : out[i].tag = "RESULT" => out[i].n = execExit
       /\ Count("WARN") + Count("OK") = 1
       /\ (Count("WARN") = 1) <=> (execExit = 0)
       /\ (Count("OK") = 1) <=> (execExit # 0)

C8_Witness == Entered("result") /\ execExit = 0 /\ Count("WARN") = 1 /\ pc = "done"

Steps == <<"load", "find", "print", "profile", "start", "testcmd", "exec",
           "relay", "result", "stop", "remove">>
Rank(step) == CHOOSE r \in 1..Len(Steps) : Steps[r] = step
Before(a, b) ==
  \A j \in 1..Len(did) : did[j] = b => \E i \in 1..(j - 1) : did[i] = a

\* C10: the steps of a run occur in the order load, find, resolve profile,
\* start container, run test command, relay output, tear down; no container is
\* started when loading or finding fails; the test command never runs after
\* the container was stopped.
C10_StepOrder ==
  /\ \A i, j \in 1..Len(did) : i < j => Rank(did[i]) < Rank(did[j])
  /\ Before("load", "find")
  /\ Before("find", "profile")
  /\ Before("profile", "start")
  /\ Before("start", "exec")
  /\ Before("exec", "relay")
  /\ Before("start", "stop")
  /\ Before("stop", "remove")
  /\ (raisedAt \in {"load", "find"}) => (container = "none" /\ ~Entered("start"))
  /\ (container \in {"stopped", "removed"}) => (pc \notin {"testcmd", "run"})
  /\ (container # "none") <=> Entered("start") /\ raisedAt # "start"

C10_Witness == pc = "done" /\ did = Steps /\ container = "removed"

----------------------------------------------------------------------------
(* pretty_print_instance on its own: every instance, then the call *)

PrintInstances ==
  {Instance("i1", "ra", ps, f2p, p2p) :
     ps \in {None, "", "text"},
     f2p \in SeqsUpTo(Tests, 1),
     p2p \in SeqsUpTo(Tests, MaxP2P)}

InitPrint ==
  /\ pc = "print"
  /\ args = [dataset |-> "subset0.json", hf_split |-> None, instance |-> "i1",
             f2p_only |-> FALSE]
  /\ data = NoValue /\ instances = NoValue
  /\ inst \in PrintInstances
  /\ container = "none" /\ exc = None /\ raisedAt = None
  /\ out = <<>> /\ did = <<>> /\ test_cmd = None
  /\ execExit = -1 /\ exit_code = -1
  /\ opened = FALSE /\ dsLoaded = FALSE
  /\ dataset = <<>> /\ dataset_list = <<>> /\ f = <<>> /\ k = 0

NextPrint == PrettyPrint

SpecPrint == InitPrint /\ [][NextPrint]_vars

P2PHeader == CHOOSE h \in 1..Len(out) : out[h].tag = "PASS_TO_PASS"

\* C7: pretty_print_instance shows the first min(5, n) PASS_TO_PASS entries in
\* their order, prints the ellipsis exactly when n > 5, and puts n itself in
\* the PASS_TO_PASS header.
C7_PassToPassTruncated ==
  Entered("print") =>
    LET p2p == inst.PASS_TO_PASS
        n == Len(p2p)
        shown == IF n < 5 THEN n ELSE 5
        h == P2PHeader
        more == IF n > 5 THEN 1 ELSE 0
    IN  /\ Count("PASS_TO_PASS") = 1
        /\ out[h].n = n
        /\ Len(out) = h + shown + more + 1
        /\ \A i \in 1..shown : out[h + i].tag = "ITEM" /\ out[h + i].s = p2p[i]
        /\ Count("ELLIPSIS") = more
        /\ (n > 5) => out[h + shown + 1].tag = "ELLIPSIS"
        /\ out[Len(out)].tag = "RULE"

C7_Witness ==
  /\ Entered("print")
  /\ inst.PASS_TO_PASS = <<"t1", "t2", "t2", "t1", "t1", "t2">>
  /\ Count("ELLIPSIS") = 1

----------------------------------------------------------------------------
(* test1.py: the Dataset Exporter *)

\* characters: NL is the line feed, QT the double quote, BS the backslash,
\* ZH a non-ASCII character
NL == "LF"
QT == "QUOTE"
BS == "BACKSLASH"
ZH == "U+6570"

\* a record is a mapping with one text column
Record(text) == [patch |-> text]
Records == {Record(<<"a">>), Record(<<"a", NL, ZH>>), Record(<<QT, BS, "n">>)}
Datasets == SeqsUpTo(Records, MaxRecords)

\* json.dumps of a string character with ensure_ascii=False
EscapeChar(c) ==
  IF c = QT THEN <<BS, QT>>
  ELSE IF c = BS THEN <<BS, BS>>
  ELSE IF c = NL THEN <<BS, "n">>
  ELSE <<c>>

RECURSIVE EscapeString(_)
EscapeString(text) ==
  IF text = <<>> THEN <<>>
  ELSE EscapeChar(Head(text)) \o EscapeString(Tail(text))

DumpsPrefix == <<"{", QT, "p", "a", "t", "c", "h", QT, ":", " ", QT>>
DumpsSuffix == <<QT, "}">>

\* json.dumps(item, ensure_ascii=False)
dumps(item) == DumpsPrefix \o EscapeString(item.patch) \o DumpsSuffix

ExportCount == 3   \* the slice [:3]

ExportSliceAll(items) == items
ExportSlice(items) == SubSeq(items, 1, Min(ExportCount, Len(items)))

OldFile == <<"o", "l", "d", NL, "o", "l", "d", NL, "o", "l", "d", NL, "o", NL>>

InitExport ==
  /\ pc = "x_load"
  /\ args = [dataset |-> None, hf_split |-> None, instance |-> "i1",
             f2p_only |-> FALSE]
  /\ f \in {<<>>, OldFile}
  /\ Idle

\* line 12: load_dataset from the local snapshot
ExportLoad ==
  /\ pc = "x_load"
  /\ \/ \E ds \in Datasets :
          /\ dataset' = ds
          /\ pc' = "x_list"
          /\ exc' = exc
     \/ /\ exc' = "FileNotFoundError"                   \* no snapshot
        /\ pc' = "x_error"
        /\ dataset' = dataset
  /\ UNCHANGED <<args, data, instances, inst, container, raisedAt, out, did,
                 test_cmd, execExit, exit_code, opened, dsLoaded,
                 dataset_list, f, k>>

\* lines 15-19: the list and the print of its length
ExportMaterialize ==
  /\ pc = "x_list"
  /\ dataset_list' = dataset
  /\ out' = Append(out, Line("LEN", Len(dataset), ""))
  /\ pc' = "x_open"
  /\ UNCHANGED <<args, data, instances, inst, container, exc, raisedAt, did,
                 test_cmd, execExit, exit_code, opened, dsLoaded, dataset, f, k>>

\* line 22: open(..., "w") truncates the file
ExportOpen ==
  /\ pc = "x_open"
  /\ \/ /\ f' = <<>>
        /\ opened' = TRUE
        /\ pc' = "x_write"
        /\ exc' = exc
     \/ /\ exc' = "FileNotFoundError"                   \* no my_scripts/ here
        /\ pc' = "x_error"
        /\ UNCHANGED <<f, opened>>
  /\ UNCHANGED <<args, data, instances, inst, container, raisedAt, out, did,
                 test_cmd, execExit, exit_code, dsLoaded, dataset,
                 dataset_list, k>>

\* lines 23-24: one turn of the for loop
ExportWrite ==
  /\ pc = "x_write"
  /\ k < Len(ExportSlice(dataset_list))
  /\ f' = f \o dumps(ExportSlice(dataset_list)[k + 1]) \o <<NL>>
  /\ k' = k + 1
  /\ UNCHANGED <<pc, args, data, instances, inst, container, exc, raisedAt,
                 out, did, test_cmd, execExit, exit_code, opened, dsLoaded,
                 dataset, dataset_list>>

\* the end of the for loop and of the with block
ExportClose ==
  /\ pc = "x_write"
  /\ k >= Len(ExportSlice(dataset_list))
  /\ pc' = "x_done"
  /\ UNCHANGED <<args, data, instances, inst, container, exc, raisedAt,
                 out, did, test_cmd, execExit, exit_code, opened, dsLoaded,
                 dataset, dataset_list, f, k>>

NextExport ==
  \/ ExportLoad
  \/ ExportMaterialize
  \/ ExportOpen
  \/ ExportWrite
  \/ ExportClose

SpecExport == InitExport /\ [][NextExport]_vars

(* Reading the file back: its lines, and the JSON text of each *)

NewLines(bytes) == {i \in 1..Len(bytes) : bytes[i] = NL}

\* the text between the (j-1)th and the jth line feed
FileLine(bytes, j) ==
  LET ends == NewLines(bytes)
      stop == CHOOSE e \in ends : Cardinality({x \in ends : x <= e}) = j
      start == IF j = 1 THEN 1
               ELSE 1 + CHOOSE e \in ends : Cardinality({x \in ends : x <= e}) = j - 1
  IN  SubSeq(bytes, start, stop - 1)

RECURSIVE Unescape(_)
Unescape(text) ==
  IF text = <<>> THEN <<>>
  ELSE IF Head(text) = BS /\ Len(text) >= 2
       THEN <<(IF text[2] = "n" THEN NL ELSE text[2])>> \o Unescape(Tail(Tail(text)))
       ELSE <<Head(text)>> \o Unescape(Tail(text))

\* json.loads of a line dumps wrote
loads(line) ==
  LET p == Len(DumpsPrefix)
      s == Len(DumpsSuffix)
  IN  IF /\ Len(line) >= p + s
         /\ SubSeq(line, 1, p) = DumpsPrefix
         /\ SubSeq(line, Len(line) - s + 1, Len(line)) = DumpsSuffix
      THEN Record(Unescape(SubSeq(line, p + 1, Len(line) - s)))
      ELSE Record(<<"not JSON">>)

\* C9: the exporter's file holds exactly min(3, n) lines, n the number of
\* records loaded: line i is record i serialized, in dataset order, each line
\* ends in a line feed, and nothing past the third record is written.
C9_FirstThreeExported ==
  (pc = "x_done") =>
    LET n == Len(dataset)
        m == IF n < 3 THEN n ELSE 3
    IN  /\ Cardinality(NewLines(f)) = m
        /\ (f # <<>>) => (f[Len(f)] = NL)
        /\ \A i \in 1..m : loads(FileLine(f, i)) = dataset[i]

C9_Witness ==
  /\ pc = "x_done"
  /\ Len(dataset) = 4
  /\ dataset[2] = Record(<<"a", NL, ZH>>)
  /\ dataset[3] = Record(<<QT, BS, "n">>)
  /\ dataset[4] # dataset[3]

====
